---- MODULE Spec2Model ----
(***************************************************************************)
(* Discharge-session controller of the HV battery discharge program        *)
(* (src/ngi.py, class HVBatteryDischargeApp with DatabaseManager).         *)
(*                                                                         *)
(* Every Tk callback (button handler, timer callback) is one action; the   *)
(* methods it calls are operators over a record of the object's fields,    *)
(* composed in the order of the code.  A Python exception is the field     *)
(* exc of that record: once set, the remaining statements are skipped up   *)
(* to the enclosing try/except, or up to the Tk main loop.                 *)
(*                                                                         *)
(* Units: floats are fixed-point integers: voltage 0.01 V, current 0.01 A, *)
(* power W, time s, energy W*s (kWh = energy / 3 600 000).                 *)
(***************************************************************************)
EXTENDS Integers, Sequences, FiniteSets, TLC

VARIABLES
    \* fields of HVBatteryDischargeApp
    test_mode, connected, running, paused,
    current_profile_data, current_step, current_discharge_id,
    energy_discharged, start_time, last_time, data_x,
    sim_voltage, sim_current, sim_power, sim_cv_current,
    step_timeline, resume_available,
    \* pending Tk timers: the reconnect job, and the number of pending
    \* run_update_loop callbacks
    reconnect_job, tick_jobs,
    \* config.json: auto_reconnect
    auto_reconnect,
    \* environment: wall clock, per row of the SQLite table "discharges" its
    \* mode column, the finish_discharge calls made for it and whether
    \* data_points holds rows for it, and the number of failures (socket,
    \* SQLite) still to come
    now, sessions, faults_left,
    \* observation of the last handler that ran: its name and argument, the
    \* state it started from, the lines it sent, the reading it took, the
    \* report it asked for, the finish_discharge calls it made, what befell
    \* the run in it; lastStateCmd is the last INPut:STATe value the instrument
    \* received
    lastStateCmd, lastOp, opArg, opPre, opCmds, opRead, opReport, opFinish,
    opEvents,
    \* history: the connection was lost while a run was running, and that run
    \* has since been neither resumed nor replaced by a newly started one
    lost_run,
    \* history: the callbacks set with master.after by _schedule_reconnect
    \* that Tk has neither run nor cancelled
    reconnect_timers,
    \* _parse_measurement on its own: the response string it is given (a
    \* sequence of characters, or None), the unit, and what it returned
    response, parse_unit, parsed,
    \* _migrate_profile_step on its own: the step it is given, and what it
    \* returned when applied to it and then to its own result
    legacy_step, migrated

vars == <<test_mode, connected, running, paused,
          current_profile_data, current_step, current_discharge_id,
          energy_discharged, start_time, last_time, data_x,
          sim_voltage, sim_current, sim_power, sim_cv_current,
          step_timeline, resume_available, reconnect_job,
          tick_jobs, auto_reconnect, now, sessions, faults_left,
          lastStateCmd, lastOp, opArg, opPre, opCmds, opRead, opReport,
          opFinish, opEvents, lost_run, reconnect_timers, response,
          parse_unit, parsed, legacy_step, migrated>>

----------------------------------------------------------------------------
\* Bounds of the model
MaxTime == 3
MaxSamples == 2
MaxSessions == 2
MaxTickJobs == 2
MaxFaults == 1
MaxRespLen == 3

\* Socket sends of one handler that succeed before sendall() raises; a
\* handler sends at most 12 lines (start_discharge with its inline first
\* tick), so NoFail injects no failure.
NoFail == 12

\* Python None for the float fields start_time / last_time
NoTime == -1

\* DEFAULT_CONFIG, in fixed-point units
SimInitVoltage == 40000
SimCvCurrentStart == 500
SimResistDen == 100
SimCvDecayPct == 5
SimCvCurrentFloor == 1
SimVoltageFloor == 100
NoisePct == 2
JitterLo == 1
JitterHi == 5
MaxStepTime == 5
TickPeriod == 1

ConnLostComment == "Connection Lost - Incomplete"

\* Inputs
DbOutcomes == {"ok", "sqlerr", "connerr"}
DbOk == [start |-> "ok", log |-> "ok", finish |-> "ok"]
\* at most one SQLite call of a handler fails
DbOracles ==
    {DbOk} \cup { [DbOk EXCEPT ![k] = o] :
                    k \in {"start", "log"}, o \in DbOutcomes \ {"ok"} }
           \cup { [DbOk EXCEPT !.finish = "connerr"] }
Comments == {"note"}

\* profiles.json as loaded: name -> ordered steps
Profiles ==
    [ p \in {"empty", "cccv", "bad", "cp", "ccv", "text", "legacy",
             "zero"} |->
        CASE p = "empty" -> << >>
          [] p = "cccv"  -> << [type |-> "CC", value |-> 1000,
                                stop_condition_type |-> "voltage",
                                stop_condition_value |-> 39988],
                               [type |-> "CV", value |-> 39950,
                                stop_condition_type |-> "current",
                                stop_condition_value |-> 470] >>
          [] p = "bad"   -> << [type |-> "CR", value |-> 1000,
                                stop_condition_type |-> "voltage",
                                stop_condition_value |-> 39988] >>
          [] p = "cp"    -> << [type |-> "CP", value |-> 4000,
                                stop_condition_type |-> "voltage",
                                stop_condition_value |-> 39990] >>
          [] p = "ccv"   -> << [type |-> "CC", value |-> 1000,
                                stop_condition_type |-> "voltage",
                                stop_condition_value |-> 39990],
                               [type |-> "CV", value |-> 39950,
                                stop_condition_type |-> "current",
                                stop_condition_value |-> 490] >>
          [] p = "text"  -> << [type |-> "CC", value |-> 1000,
                                stop_condition_type |-> "voltage",
                                stop_condition_value |-> 39990],
                               [type |-> "CC", value |-> 0,
                                value_text |-> "ten",
                                stop_condition_type |-> "voltage",
                                stop_condition_value |-> 39988] >>
          [] p = "legacy" -> << [type |-> "CC", value |-> 1000] >>
          [] p = "zero"  -> << [type |-> "CC", value |-> 0,
                                stop_condition_type |-> "voltage",
                                stop_condition_value |-> 39988] >> ]

\* a step whose "value" in profiles.json is a string, not a number; its
\* value field only fills the slot
TextValued(step) == "value_text" \in DOMAIN step

\* profile_var: "" is "nothing selected"
ProfileVars == {"", "empty", "cccv", "bad"}

\* profiles of a hand-written or old profiles.json: a step in the format
\* before stop_condition_type (no stop_voltage either), a step with value 0
FileProfileVars == {"legacy", "zero"}

\* the profiles run in Test mode
SimProfileVars == {"cp", "ccv", "text"}

----------------------------------------------------------------------------
\* The object's fields as one record, plus the inputs of the running handler
\* (budget: sends that succeed before the socket fails; dbo: outcome of the
\* SQLite calls; rd: the instrument's answers / the random draws; comment:
\* text typed in the certificate dialog) and its observations.
Cur(budget, dbo, rd, comment) ==
    [ test_mode |-> test_mode, connected |-> connected,
      running |-> running, paused |-> paused,
      current_profile_data |-> current_profile_data,
      current_step |-> current_step,
      current_discharge_id |-> current_discharge_id,
      energy_discharged |-> energy_discharged,
      start_time |-> start_time, last_time |-> last_time, data_x |-> data_x,
      sim_voltage |-> sim_voltage, sim_current |-> sim_current,
      sim_power |-> sim_power, sim_cv_current |-> sim_cv_current,
      step_timeline |-> step_timeline,
      resume_available |-> resume_available,
      reconnect_job |-> reconnect_job, tick_jobs |-> tick_jobs,
      now |-> now, sessions |-> sessions, faults_left |-> faults_left,
      lastStateCmd |-> lastStateCmd, lost_run |-> lost_run,
      reconnect_timers |-> reconnect_timers,
      budget |-> budget,
      dbo |-> dbo, rd |-> rd, comment |-> comment,
      ret |-> FALSE, exc |-> FALSE, cmds |-> << >>,
      read |-> [ok |-> FALSE, v |-> 0, i |-> 0, p |-> 0,
                evaluated |-> FALSE],
      report |-> "none", finished |-> << >>, events |-> << >> ]

Pre ==
    [ running |-> running, paused |-> paused, connected |-> connected,
      test_mode |-> test_mode, current_step |-> current_step,
      current_discharge_id |-> current_discharge_id,
      lost_run |-> lost_run ]

Commit(op, arg, s) ==
    /\ test_mode' = s.test_mode
    /\ connected' = s.connected
    /\ running' = s.running
    /\ paused' = s.paused
    /\ current_profile_data' = s.current_profile_data
    /\ current_step' = s.current_step
    /\ current_discharge_id' = s.current_discharge_id
    /\ energy_discharged' = s.energy_discharged
    /\ start_time' = s.start_time
    /\ last_time' = s.last_time
    /\ data_x' = s.data_x
    /\ sim_voltage' = s.sim_voltage
    /\ sim_current' = s.sim_current
    /\ sim_power' = s.sim_power
    /\ sim_cv_current' = s.sim_cv_current
    /\ step_timeline' = s.step_timeline
    /\ resume_available' = s.resume_available
    /\ reconnect_job' = s.reconnect_job
    /\ tick_jobs' = s.tick_jobs
    /\ now' = s.now
    /\ sessions' = s.sessions
    /\ faults_left' = s.faults_left
    /\ lastStateCmd' = s.lastStateCmd
    /\ lastOp' = op
    /\ opCmds' = s.cmds
    /\ opArg' = arg
    /\ opPre' = Pre
    /\ opRead' = s.read
    /\ opReport' = s.report
    /\ opFinish' = s.finished
    /\ opEvents' = s.events
    /\ lost_run' = s.lost_run
    /\ reconnect_timers' = s.reconnect_timers
    /\ UNCHANGED <<auto_reconnect, response, parse_unit, parsed,
                   legacy_step, migrated>>

Last(q) == q[Len(q)]

\* a failure of the environment occurs
Fault(s) == [s EXCEPT !.faults_left = @ - 1]

----------------------------------------------------------------------------
\* DatabaseManager

\* finish_discharge: the UPDATE runs inside try/except sqlite3.Error (a
\* failure is logged), but _get_connection() is called before the try and
\* re-raises.
finish_discharge(s, id, energy, comment) ==
    IF id < 0 THEN s
    ELSE LET c == [s EXCEPT !.sessions[id].finishCalls = @ + 1,
                            !.finished = Append(@, [id |-> id,
                                                    energy |-> energy,
                                                    comment |-> comment])]
         IN IF s.dbo.finish = "connerr" THEN [Fault(c) EXCEPT !.exc = TRUE]
            ELSE c

\* start_new_discharge: returns lastrowid, or -1 on sqlite3.Error
start_new_discharge(s, mode) ==
    CASE s.dbo.start = "connerr" -> [Fault(s) EXCEPT !.exc = TRUE]
      [] s.dbo.start = "sqlerr"  -> [Fault(s) EXCEPT !.ret = -1]
      [] OTHER ->
           [s EXCEPT !.sessions = Append(@, [finishCalls |-> 0,
                                             rows |-> FALSE,
                                             mode |-> mode]),
                     !.ret = Len(s.sessions) + 1]

\* log_data_point: as finish_discharge, the INSERT is guarded (a failure is
\* logged as a warning) and _get_connection() before it is not
log_data_point(s, id) ==
    IF id < 0 THEN s
    ELSE CASE s.dbo.log = "connerr" ->
                [Fault(s) EXCEPT !.exc = TRUE,
                                 !.events = Append(@, "log_raised")]
           [] s.dbo.log = "sqlerr"  ->
                [Fault(s) EXCEPT !.events = Append(@, "log_failed")]
           [] OTHER -> [s EXCEPT !.sessions[id].rows = TRUE]

----------------------------------------------------------------------------
\* Reconnect supervisor and transport

\* a timer set whatever the mode and the setting (what C20 rules out)
ScheduleAlways(s) == [s EXCEPT !.reconnect_job = TRUE]

\* a timer set although one is pending (what C35 rules out)
ScheduleWhilePending(s) ==
    IF s.test_mode \/ ~auto_reconnect THEN s
    ELSE [s EXCEPT !.reconnect_job = TRUE, !.reconnect_timers = @ + 1]

_schedule_reconnect(s) ==
    IF s.test_mode \/ ~auto_reconnect THEN s
    ELSE IF s.reconnect_job THEN s
    ELSE [s EXCEPT !.reconnect_job = TRUE, !.reconnect_timers = @ + 1]

\* after_cancel only when _reconnect_job holds a handle
_cancel_reconnect(s) ==
    IF s.reconnect_job
    THEN [s EXCEPT !.reconnect_job = FALSE, !.reconnect_timers = @ - 1]
    ELSE s

handle_connection_loss(s) ==
    IF s.test_mode THEN s
    ELSE
      LET Scheduled(b) == IF b.exc THEN b ELSE _schedule_reconnect(b)
          Forgotten(f) ==
              IF f.exc THEN f ELSE [f EXCEPT !.current_discharge_id = -1]
          Ended(r) ==
              IF r.current_discharge_id # -1
              THEN Forgotten(finish_discharge(r, r.current_discharge_id,
                                              r.energy_discharged,
                                              ConnLostComment))
              ELSE r
      IN Scheduled(IF s.running
                   THEN Ended([s EXCEPT !.connected = FALSE,
                                        !.running = FALSE, !.paused = FALSE,
                                        !.lost_run = TRUE,
                                        !.events = Append(@, "lost")])
                   ELSE [s EXCEPT !.connected = FALSE])

Logged(s, name, arg, val, res) ==
    [s EXCEPT !.cmds = Append(@, [name |-> name, arg |-> arg,
                                  val |-> val, res |-> res])]

\* sendall() raising socket.error / socket.timeout
SendFails(s) == s.budget = 0

\* a command written to the socket whatever the mode (what C24 rules out)
CommandUnbypassed(s, name, arg, val) ==
    IF ~s.connected
    THEN [Logged(s, name, arg, val, "notconn") EXCEPT !.ret = FALSE]
    ELSE [Logged(s, name, arg, val, "sent") EXCEPT
             !.ret = TRUE,
             !.lastStateCmd = IF name = "INPut:STATe" THEN arg ELSE @]

scpi_command(s, name, arg, val) ==
    IF s.test_mode
    THEN [Logged(s, name, arg, val, "bypassed") EXCEPT !.ret = TRUE]
    ELSE IF ~s.connected
    THEN [Logged(s, name, arg, val, "notconn") EXCEPT !.ret = FALSE]
    ELSE IF ~SendFails(s)
    THEN [Logged(s, name, arg, val, "sent") EXCEPT
             !.budget = @ - 1, !.ret = TRUE,
             !.lastStateCmd = IF name = "INPut:STATe" THEN arg ELSE @]
    ELSE LET Failed(x) == IF x.exc THEN x ELSE [x EXCEPT !.ret = FALSE]
         IN Failed(handle_connection_loss(
                       Fault(Logged(s, name, arg, val, "failed"))))

\* scpi_query: ret = TRUE when a response string came back (None otherwise)
scpi_query(s, name) ==
    IF s.test_mode
    THEN [Logged(s, name, "?", 0, "bypassed") EXCEPT !.ret = TRUE]
    ELSE IF ~s.connected
    THEN [Logged(s, name, "?", 0, "notconn") EXCEPT !.ret = FALSE]
    ELSE IF ~SendFails(s)
    THEN [Logged(s, name, "?", 0, "sent") EXCEPT !.budget = @ - 1, !.ret = TRUE]
    ELSE LET Failed(x) == IF x.exc THEN x ELSE [x EXCEPT !.ret = FALSE]
         IN Failed(handle_connection_loss(
                       Fault(Logged(s, name, "?", 0, "failed"))))

----------------------------------------------------------------------------
\* Session end

\* create_discharge_certificate: returns early without a valid id or without
\* rows in the database; otherwise the PDF is written.
create_discharge_certificate(s) ==
    IF s.current_discharge_id = -1 THEN [s EXCEPT !.report = "noid"]
    ELSE IF ~s.sessions[s.current_discharge_id].rows
    THEN [s EXCEPT !.report = "nodata"]
    ELSE [s EXCEPT !.report = "generated"]

\* "Close any open timeline row" (inside try/except)
CloseTimeline(tl, end_s) ==
    IF Len(tl) > 0 /\ Last(tl).end_s = NoTime
    THEN [tl EXCEPT ![Len(tl)].end_s = end_s]
    ELSE tl

\* a certificate on every stop (what C16 rules out)
ReportAlways(was_running, generate_report, c) == TRUE

\* "if was_running and generate_report and self.data_x"
ReportDue(was_running, generate_report, c) ==
    was_running /\ generate_report /\ Len(c.data_x) > 0

stop_discharge(s, generate_report) ==
    LET was_running == s.running
        comment == IF was_running /\ generate_report THEN s.comment ELSE ""
        LoadOff(a) ==
            IF a.connected THEN scpi_command(a, "INPut:STATe", "0", 0) ELSE a
        Finalized(b) ==
            IF b.exc \/ b.current_discharge_id = -1 THEN b
            ELSE finish_discharge(b, b.current_discharge_id,
                                  b.energy_discharged, comment)
        Certified(c) ==
            IF c.exc THEN c
            ELSE IF ReportDue(was_running, generate_report, c)
                 THEN create_discharge_certificate(c)
                 ELSE c
        Cleared(d) ==
            IF d.exc THEN d ELSE [d EXCEPT !.current_discharge_id = -1]
    IN Cleared(Certified(Finalized(LoadOff(
           [s EXCEPT !.running = FALSE, !.paused = FALSE,
                     !.lost_run = IF was_running THEN FALSE ELSE @,
                     !.events = IF ~was_running THEN @
                                ELSE Append(@, IF generate_report
                                               THEN "reported" ELSE "aborted"),
                     !.step_timeline =
                         CloseTimeline(@,
                             IF Len(s.data_x) > 0 THEN Last(s.data_x)
                             ELSE IF s.start_time # NoTime
                                  THEN s.now - s.start_time ELSE 0)]))))

----------------------------------------------------------------------------
\* Step application

Supported(step_type) == step_type \in {"CC", "CP", "CV"}

\* The timeline block: the previous open row is closed, then fmt_step is an
\* unbound name in this method (it is a local of
\* create_discharge_certificate), so the NameError leaves the block before
\* the new row is appended.
TimelineOnApply(s) ==
    [s EXCEPT !.step_timeline =
        CloseTimeline(@, IF s.start_time # NoTime
                         THEN s.now - s.start_time ELSE 0)]

\* an unsupported step passed over (what C14 rules out)
UnsupportedIgnored(a) == a

\* "Unsupported type": error dialog, then the run is stopped
UnsupportedStops(a) == stop_discharge(a, FALSE)

\* the level set before the function (what C17 rules out)
LevelFirst == <<"STATic:HIGH:LEVel", "INPut:FUNCtion">>

\* the two lines of a step, in the order they are sent
StepLines == <<"INPut:FUNCtion", "STATic:HIGH:LEVel">>

\* only the level line carries the step's value
LineValue(name, step) == IF name = "STATic:HIGH:LEVel" THEN step.value ELSE 0

apply_profile_step(s) ==
    IF ~s.running \/ s.paused THEN s
    ELSE IF s.current_step >= Len(s.current_profile_data)
    THEN stop_discharge(s, TRUE)
    ELSE
      LET step == s.current_profile_data[s.current_step + 1]
          Settled(l, func_set) ==
              IF l.exc THEN l
              ELSE IF ~(func_set /\ l.ret) /\ ~l.test_mode
                   THEN stop_discharge(l, FALSE)
              ELSE IF l.test_mode /\ step.type = "CV"
                   THEN [l EXCEPT !.sim_cv_current = SimCvCurrentStart]
                   ELSE l
          Level(f) ==
              IF f.exc THEN f
              ELSE Settled(scpi_command(f, StepLines[2], step.type,
                                        LineValue(StepLines[2], step)),
                           f.ret)
      IN IF ~Supported(step.type)
         THEN UnsupportedStops(
                  [TimelineOnApply(s) EXCEPT
                       !.events = Append(@, "unsupported")])
         ELSE Level(scpi_command(TimelineOnApply(s), StepLines[1],
                                 step.type, LineValue(StepLines[1], step)))

----------------------------------------------------------------------------
\* Measurement acquisition

Max(a, b) == IF a >= b THEN a ELSE b

Noisy(target, n) == (target * (100 + n)) \div 100

\* random.uniform draws are taken at the ends of their intervals; rd.hi
\* selects the upper end of the voltage jitter
Jitter(rd) == IF rd.hi THEN JitterHi ELSE JitterLo
CvJitter(rd) == IF rd.hi THEN JitterHi ELSE 0 - JitterHi

SimClamp(s) ==
    LET v == Max(0, s.sim_voltage)
        z == v < SimVoltageFloor
    IN [s EXCEPT !.sim_voltage = v,
                 !.sim_current = IF z THEN 0 ELSE @,
                 !.sim_power = IF z THEN 0 ELSE @]

SimRead(s) ==
    [s EXCEPT !.read.ok = TRUE, !.read.v = s.sim_voltage,
              !.read.i = s.sim_current, !.read.p = s.sim_power]

\* the arithmetic on target_value raises TypeError on a string, in the first
\* statement of each of the three branches, before any field is assigned
SimRaises(step) == TextValued(step) /\ step.type \in {"CC", "CP", "CV"}

_simulate_measurements(s) ==
    IF \/ ~s.running \/ s.paused \/ Len(s.current_profile_data) = 0
       \/ s.current_step >= Len(s.current_profile_data)
    THEN SimRead(s)
    ELSE IF SimRaises(s.current_profile_data[s.current_step + 1])
    THEN [s EXCEPT !.read.ok = FALSE]
    ELSE
      LET step == s.current_profile_data[s.current_step + 1]
          target == step.value
          n == s.rd.noise
          u == IF step.type = "CC" THEN
                 LET cur == Noisy(target, n)
                     v == s.sim_voltage - ((cur \div SimResistDen) + Jitter(s.rd))
                 IN [s EXCEPT !.sim_current = cur, !.sim_voltage = v,
                              !.sim_power = (v * cur) \div 10000]
               ELSE IF step.type = "CP" THEN
                 LET pow == Noisy(target, n)
                     cur == IF s.sim_voltage > SimVoltageFloor
                            THEN (pow * 10000) \div s.sim_voltage ELSE 0
                     v == s.sim_voltage
                            - ((cur \div (2 * SimResistDen)) + Jitter(s.rd))
                 IN [s EXCEPT !.sim_power = pow, !.sim_current = cur,
                              !.sim_voltage = v]
               ELSE IF step.type = "CV" THEN
                 LET diff == target - s.sim_voltage
                     v == s.sim_voltage + (diff \div 10) + CvJitter(s.rd)
                     cv == Max(SimCvCurrentFloor,
                               (s.sim_cv_current * (100 - SimCvDecayPct))
                                  \div 100)
                     cur == Noisy(cv, n)
                 IN [s EXCEPT !.sim_voltage = v, !.sim_cv_current = cv,
                              !.sim_current = cur,
                              !.sim_power = (v * cur) \div 10000]
               ELSE [s EXCEPT !.sim_current = 0, !.sim_power = 0,
                              !.sim_voltage = @ - Jitter(s.rd)]
      IN SimRead(SimClamp(u))

\* Optional[str]: got = FALSE is None
NoResponse == [got |-> FALSE, text |-> << >>]

\* str.upper() on the characters a response is drawn from
Upper(c) == CASE c = "e" -> "E" [] c = "a" -> "A" [] OTHER -> c

UpperAll(q) == [k \in DOMAIN q |-> Upper(q[k])]

\* str.replace(u, "") for a one-letter u
Without(q, u) ==
    LET keep == {k \in DOMAIN q : q[k] # u}
        nth(n) == CHOOSE k \in keep :
                      Cardinality({j \in keep : j <= k}) = n
    IN [n \in 1..Cardinality(keep) |-> q[nth(n)]]

\* str.strip()
Strip(q) ==
    LET ink == {k \in DOMAIN q : q[k] # " "}
    IN IF ink = {} THEN << >>
       ELSE SubSeq(q, CHOOSE k \in ink : \A j \in ink : k <= j,
                      CHOOSE k \in ink : \A j \in ink : k >= j)

\* str.count(c)
Count(q, c) == Cardinality({k \in DOMAIN q : q[k] = c})

IsDigit(c) == c \in {"0", "1", "2", "3", "4", "5", "6", "7", "8", "9"}

Unsigned(q) == IF Len(q) > 0 /\ q[1] \in {"-", "+"} THEN Tail(q) ELSE q

Digits(q) == Len(q) > 0 /\ \A k \in DOMAIN q : IsDigit(q[k])

\* digits with at most one point and at least one digit: 1  1.  .1  1.1
Mantissa(q) ==
    /\ \A k \in DOMAIN q : IsDigit(q[k]) \/ q[k] = "."
    /\ Count(q, ".") <= 1
    /\ \E k \in DOMAIN q : IsDigit(q[k])

\* the strings float() converts, among those over 0-9 . - + E; on any
\* other it raises ValueError
FloatSyntax(q) ==
    LET u == Unsigned(q)
        es == {k \in DOMAIN u : u[k] = "E"}
    IN IF es = {} THEN Mantissa(u)
       ELSE LET e == CHOOSE k \in es : \A j \in es : k <= j
            IN /\ Mantissa(SubSeq(u, 1, e - 1))
               /\ Digits(Unsigned(SubSeq(u, e + 1, Len(u))))

\* the character test before float(): "all(c in '0123456789.-+eE' ...)"
Numeric(c) == IsDigit(c) \/ c \in {".", "-", "+", "e", "E"}

\* _parse_measurement: "float" for a value, "None" for the failure value
\* (also when float() raises ValueError, which the method catches)
_parse_measurement(resp, unit) ==
    IF ~resp.got THEN "None"
    ELSE LET value_str == Strip(Without(UpperAll(resp.text), Upper(unit)))
         IN IF \/ Len(value_str) = 0
               \/ ~ \A k \in DOMAIN value_str : Numeric(value_str[k])
               \/ Count(value_str, ".") > 1
               \/ Count(value_str, "-") > 1
               \/ Count(value_str, "+") > 1
            THEN "None"
            ELSE IF FloatSyntax(value_str) THEN "float" ELSE "None"

\* fetch_measurements: three queries, always all three issued; the read fails
\* if any response is missing or does not parse (rd.bad names the malformed
\* response, 0 for none).
fetch_measurements(s) ==
    IF ~s.connected THEN s
    ELSE
      LET Parsed(qp, okv, okc) ==
              IF qp.exc THEN qp
              ELSE IF okv /\ okc /\ qp.ret /\ s.rd.bad # 3
                   THEN [qp EXCEPT !.read.ok = TRUE, !.read.v = s.rd.v,
                                   !.read.i = s.rd.i, !.read.p = s.rd.p]
                   ELSE qp
          Power(qc, okv) ==
              IF qc.exc THEN qc
              ELSE Parsed(scpi_query(qc, "MEASure:POWer"), okv,
                          qc.ret /\ s.rd.bad # 2)
          Current(qv) ==
              IF qv.exc THEN qv
              ELSE Power(scpi_query(qv, "MEASure:CURRent"),
                         qv.ret /\ s.rd.bad # 1)
      IN Current(scpi_query(s, "MEASure:VOLTage"))

\* update_measurement_display() without arguments reads the instrument when
\* connected in live mode (the values only go to the labels)
update_measurement_display(s) ==
    IF s.test_mode THEN s
    ELSE IF s.connected
         THEN LET f == fetch_measurements(s) IN [f EXCEPT !.read = s.read]
         ELSE s

\* a reset that keeps the energy of the run before (what C27 rules out)
ResetKeepsEnergy(s) ==
    update_measurement_display(
        [s EXCEPT !.start_time = NoTime,
                  !.last_time = NoTime, !.data_x = << >>,
                  !.sim_voltage = SimInitVoltage, !.sim_current = 0,
                  !.sim_power = 0, !.sim_cv_current = SimCvCurrentStart])

reset_data_internal(s) ==
    update_measurement_display(
        [s EXCEPT !.energy_discharged = 0, !.start_time = NoTime,
                  !.last_time = NoTime, !.data_x = << >>,
                  !.sim_voltage = SimInitVoltage, !.sim_current = 0,
                  !.sim_power = 0, !.sim_cv_current = SimCvCurrentStart])

----------------------------------------------------------------------------
\* Control loop

\* a loop that is not scheduled again (what C18 rules out)
NoResched(s) == s

\* "if self.running: self.master.after(1000, self.run_update_loop)"
Resched(s) == IF s.running THEN [s EXCEPT !.tick_jobs = @ + 1] ELSE s

\* the enclosing "except Exception" of run_update_loop
Caught(s) == [s EXCEPT !.exc = FALSE]

\* stop-condition test of the active step on the monitored values
StopMet(step, v, i) ==
    IF step.stop_condition_type = "voltage" THEN v <= step.stop_condition_value
    ELSE IF step.stop_condition_type = "current"
         THEN i <= step.stop_condition_value
         ELSE FALSE

\* an interval test that lets the limit itself through (what C26 rules out)
StepTimeUpToLimit(es) == 0 < es /\ es <= MaxStepTime

\* energy integration of one sample
ValidStepTime(es) == 0 < es /\ es < MaxStepTime

Integrate(s, power) ==
    LET es == s.now - s.last_time
        add == s.start_time # NoTime /\ s.last_time # NoTime
               /\ ValidStepTime(es)
    IN [s EXCEPT !.energy_discharged = IF add THEN @ + power * es ELSE @,
                 !.last_time = s.now]

ElapsedTotal(s) == IF s.start_time # NoTime THEN s.now - s.start_time ELSE 0

\* the part of the loop body after a successful reading
ProcessSample(m) ==
    LET Evaluated(l) ==
            IF l.exc THEN l
            ELSE IF l.current_step < Len(l.current_profile_data)
            THEN LET step == l.current_profile_data[l.current_step + 1]
                     mv == IF l.test_mode THEN l.sim_voltage ELSE l.read.v
                     mi == IF l.test_mode THEN l.sim_current ELSE l.read.i
                 IN IF StopMet(step, mv, mi)
                    THEN apply_profile_step(
                             [l EXCEPT !.read.evaluated = TRUE,
                                       !.current_step = @ + 1])
                    ELSE [l EXCEPT !.read.evaluated = TRUE]
            ELSE l
        Stored(a) == Evaluated(log_data_point(a, a.current_discharge_id))
    IN Stored([Integrate(m, m.read.p) EXCEPT
                   !.data_x = Append(@, ElapsedTotal(m))])

\* a loop that does not look at running (what C10 rules out)
LoopNeverReturns(s) == FALSE

\* "if not self.running: return"
LoopReturns(s) == ~s.running

\* a loop that does not look at paused (what C9 rules out)
AcquiringWhilePaused(s) == s.connected

\* "if self.connected and not self.paused:"
Acquiring(s) == s.connected /\ ~s.paused

\* a failed simulation skipped like a failed fetch (what C12 rules out)
SimFailureSkipped(m) == [m EXCEPT !.tick_jobs = @ + 1]

\* "Simulation failed.": the run is stopped and the loop returns
SimFailureStops(m) == Caught(stop_discharge(m, FALSE))

run_update_loop(s) ==
    LET Acquired(m) ==
            IF m.exc THEN Resched(Caught(m))
            ELSE IF ~m.read.ok
            THEN IF ~m.test_mode
                 THEN [m EXCEPT !.tick_jobs = @ + 1]
                 ELSE SimFailureStops(m)
            ELSE Resched(Caught(ProcessSample(m)))
        Lost(x) == IF x.exc THEN x ELSE Resched(x)
    IN IF LoopReturns(s) THEN s
       ELSE IF Acquiring(s)
       THEN Acquired(IF s.test_mode THEN _simulate_measurements(s)
                     ELSE fetch_measurements(s))
       ELSE IF ~s.connected /\ ~s.test_mode
       THEN Lost(handle_connection_loss(s))
       ELSE Resched(s)

----------------------------------------------------------------------------
\* Operator commands

\* str.upper() on the step types that occur
UpperType(t) ==
    CASE t = "cc" -> "CC"
      [] t = "cp" -> "CP"
      [] t = "cv" -> "CV"
      [] OTHER -> t

\* a migration that does not look for stop_condition_type (what C31 rules
\* out)
MigrateAlways(step) ==
    LET step_type == IF "type" \in DOMAIN step THEN UpperType(step.type)
                     ELSE "CC"
        base == [k \in (DOMAIN step) \ {"stop_voltage"} |-> step[k]]
        ext(t, v) == [k \in DOMAIN base \cup {"stop_condition_type",
                                              "stop_condition_value"} |->
                        IF k = "stop_condition_type" THEN t
                        ELSE IF k = "stop_condition_value" THEN v
                        ELSE base[k]]
    IN IF step_type = "CV" THEN ext("current", 10)
       ELSE IF "stop_voltage" \in DOMAIN step
            THEN ext("voltage", step.stop_voltage)
            ELSE ext("voltage", 0)

_migrate_profile_step(step) ==
    IF "stop_condition_type" \notin DOMAIN step
    THEN LET step_type == IF "type" \in DOMAIN step
                          THEN UpperType(step.type) ELSE "CC"
             base == [k \in (DOMAIN step) \ {"stop_voltage"} |-> step[k]]
             ext(t, v) == [k \in DOMAIN base \cup {"stop_condition_type",
                                                   "stop_condition_value"} |->
                             IF k = "stop_condition_type" THEN t
                             ELSE IF k = "stop_condition_value" THEN v
                             ELSE base[k]]
         IN IF step_type = "CV" THEN ext("current", 10)
            ELSE IF "stop_voltage" \in DOMAIN step
                 THEN ext("voltage", step.stop_voltage)
                 ELSE ext("voltage", 0)
    ELSE step

MigrateAll(steps) == [k \in 1..Len(steps) |-> _migrate_profile_step(steps[k])]

SimReset(s) ==
    [s EXCEPT !.sim_voltage = SimInitVoltage, !.sim_current = 0,
              !.sim_power = 0, !.sim_cv_current = SimCvCurrentStart]

\* start_discharge from the session creation on
StartSession(r) ==
    LET Looped(a) == IF a.exc THEN a ELSE run_update_loop(a)
        Enabled(c) ==
            IF c.exc THEN c
            ELSE IF ~c.ret /\ ~c.test_mode THEN stop_discharge(c, FALSE)
            ELSE Looped(apply_profile_step(c))
        Created(n) ==
            IF n.exc THEN [n EXCEPT !.events = Append(@, "create_failed")]
            ELSE IF n.ret = -1
            THEN [n EXCEPT !.current_discharge_id = -1, !.running = FALSE,
                           !.events = Append(@, "create_failed")]
            ELSE Enabled(scpi_command(
                     [(IF n.test_mode THEN SimReset(n) ELSE n) EXCEPT
                          !.current_discharge_id = n.ret],
                     "INPut:STATe", "1", 0))
    IN Created(start_new_discharge(r, IF r.test_mode THEN "Test" ELSE "Real"))

\* a start that skips the connection check (what C8 rules out)
ConnectionIgnored(s) == FALSE

\* a start that skips the running check (what C6 rules out)
RunningIgnored(s) == FALSE

\* the three refusals at the head of start_discharge
NotConnected(s) == ~s.connected

AlreadyRunning(s) == s.running

NoProfile(profile_var) == profile_var = "" \/ profile_var \notin DOMAIN Profiles

start_discharge(s, profile_var) ==
    IF NotConnected(s) THEN s
    ELSE IF AlreadyRunning(s) THEN s
    ELSE IF NoProfile(profile_var) THEN s
    ELSE
      LET Begun(d) ==
              IF d.exc THEN d
              ELSE StartSession(
                     [d EXCEPT !.running = TRUE, !.paused = FALSE,
                               !.lost_run = FALSE,
                               !.start_time = d.now, !.last_time = d.now,
                               !.current_step = 0, !.step_timeline = << >>])
          Loaded(p) ==
              IF Len(p.current_profile_data) = 0 THEN p
              ELSE Begun(reset_data_internal(p))
      IN Loaded([s EXCEPT !.current_profile_data =
                              MigrateAll(Profiles[profile_var])])

\* a resume that leaves last_time at the last tick before the pause (what
\* C30 rules out)
ResumeKeepsLastTime(s) ==
    IF ~s.running THEN s
    ELSE LET Switched(c) ==
                 IF c.exc THEN c
                 ELSE IF c.ret THEN [c EXCEPT !.paused = ~c.paused]
                 ELSE c
         IN Switched(scpi_command(s, "INPut:STATe",
                                  IF ~s.paused THEN "0" ELSE "1", 0))

\* a pause state that flips whatever the command returned (what C36 rules
\* out)
PauseUnconditional(s) ==
    IF ~s.running THEN s
    ELSE LET Switched(c) ==
                 IF c.exc THEN c
                 ELSE [c EXCEPT !.paused = ~s.paused,
                                !.last_time = IF s.paused THEN c.now ELSE @]
         IN Switched(scpi_command(s, "INPut:STATe",
                                  IF ~s.paused THEN "0" ELSE "1", 0))

toggle_pause_discharge(s) ==
    IF ~s.running THEN s
    ELSE LET Switched(c) ==
                 IF c.exc THEN c
                 ELSE IF c.ret
                 THEN [c EXCEPT !.paused = ~c.paused,
                                !.last_time = IF c.paused THEN c.now ELSE @]
                 ELSE c
         IN Switched(scpi_command(s, "INPut:STATe",
                                  IF ~s.paused THEN "0" ELSE "1", 0))

confirm_stop_discharge(s, yes) ==
    IF ~s.running THEN s
    ELSE IF yes THEN stop_discharge(s, TRUE) ELSE s

----------------------------------------------------------------------------
\* Connection management

\* disconnect_instrument as toggle_test_mode reaches it: test_mode is already
\* set, so the instrument is neither told to stop nor is the socket closed
disconnect_instrument(s) ==
    IF s.test_mode THEN [s EXCEPT !.connected = FALSE]
    ELSE LET c == IF s.connected
                  THEN Caught(scpi_command(s, "INPut:STATe", "0", 0))
                  ELSE s
         IN [c EXCEPT !.connected = FALSE]

\* ret: the method's return value; up: socket.connect() succeeds
connect_instrument(s, up) ==
    IF s.test_mode THEN [s EXCEPT !.connected = TRUE, !.ret = TRUE]
    ELSE IF s.connected THEN [s EXCEPT !.ret = TRUE]
    ELSE IF up
    THEN LET c == _cancel_reconnect([s EXCEPT !.connected = TRUE])
             q == Caught(scpi_query(c, "*IDN"))
         IN [q EXCEPT !.ret = TRUE]
    ELSE LET f == _schedule_reconnect(Fault([s EXCEPT !.connected = FALSE]))
         IN [f EXCEPT !.ret = FALSE]

\* a reconnect that restarts the run by itself (what C4 rules out)
AutoResume(c) == [c EXCEPT !.resume_available = TRUE, !.running = TRUE]

\* "self.resume_available = True" (the Resume button is enabled)
OfferResume(c) == [c EXCEPT !.resume_available = TRUE]

\* tick() of _schedule_reconnect
reconnect_tick(s, up) ==
    LET Connected(c) ==
            IF c.ret
            THEN IF Len(c.current_profile_data) > 0
                    /\ 0 <= c.current_step
                    /\ c.current_step < Len(c.current_profile_data)
                 THEN OfferResume(c)
                 ELSE c
            ELSE _schedule_reconnect(c)
    IN IF ~s.connected
       THEN Connected(connect_instrument(
                [s EXCEPT !.reconnect_job = FALSE,
                          !.reconnect_timers = @ - 1], up))
       ELSE [s EXCEPT !.reconnect_job = FALSE, !.reconnect_timers = @ - 1]

\* a resume that restarts the clock of the run (what C38 rules out)
ResumeResetsTimes(s, yes) ==
    IF ~s.resume_available \/ ~s.connected THEN s
    ELSE IF s.running THEN s
    ELSE IF ~yes THEN [s EXCEPT !.resume_available = FALSE]
    ELSE
      LET Resumed(x) ==
              IF x.exc THEN x ELSE [x EXCEPT !.resume_available = FALSE]
          Enabled(c) ==
              IF c.exc THEN c
              ELSE IF ~c.ret
              THEN [c EXCEPT !.running = FALSE,
                             !.events = IF c.running
                                        THEN Append(@, "resume_failed")
                                        ELSE @]
              ELSE Resumed(run_update_loop(c))
          Applied(a) ==
              IF a.exc THEN a
              ELSE Enabled(scpi_command(a, "INPut:STATe", "1", 0))
      IN Applied(apply_profile_step(
             [s EXCEPT !.running = TRUE, !.paused = FALSE,
                       !.lost_run = FALSE,
                       !.start_time = s.now,
                       !.last_time = s.now]))

_resume_after_reconnect(s, yes) ==
    IF ~s.resume_available \/ ~s.connected THEN s
    ELSE IF s.running THEN s
    ELSE IF ~yes THEN [s EXCEPT !.resume_available = FALSE]
    ELSE
      LET Resumed(x) ==
              IF x.exc THEN x ELSE [x EXCEPT !.resume_available = FALSE]
          Enabled(c) ==
              IF c.exc THEN c
              ELSE IF ~c.ret
              THEN [c EXCEPT !.running = FALSE,
                             !.events = IF c.running
                                        THEN Append(@, "resume_failed")
                                        ELSE @]
              ELSE Resumed(run_update_loop(c))
          Applied(a) ==
              IF a.exc THEN a
              ELSE Enabled(scpi_command(a, "INPut:STATe", "1", 0))
          none == s.start_time = NoTime
      IN Applied(apply_profile_step(
             [s EXCEPT !.running = TRUE, !.paused = FALSE,
                       !.lost_run = FALSE,
                       !.start_time = IF none THEN s.now ELSE @,
                       !.last_time = IF none THEN s.now ELSE @]))

\* the checkbox has already flipped test_mode when the handler runs
toggle_test_mode(s0, up) ==
    LET s == [s0 EXCEPT !.test_mode = ~s0.test_mode] IN
    IF s.running THEN [s EXCEPT !.test_mode = ~s.test_mode]
    ELSE IF s.test_mode
    THEN LET d == IF s.connected THEN disconnect_instrument(s) ELSE s
         IN SimReset([d EXCEPT !.connected = TRUE])
    ELSE LET c == connect_instrument([s EXCEPT !.connected = FALSE], up)
         IN update_measurement_display(c)

----------------------------------------------------------------------------
\* Inputs of one handler.  An input is drawn only where the handler reads it.

NoRead == [bad |-> 0, v |-> 0, i |-> 0, p |-> 0, noise |-> 0, hi |-> FALSE]

\* answers of the instrument: neither threshold met, voltage below its
\* threshold, current below its threshold, a malformed current answer
LiveReadings ==
    { [NoRead EXCEPT !.v = 39990, !.i = 1000, !.p = 4000],
      [NoRead EXCEPT !.v = 39980, !.i = 1000, !.p = 4000],
      [NoRead EXCEPT !.v = 39990, !.i = 460, !.p = 4000],
      [NoRead EXCEPT !.bad = 2] }

\* random draws: all at the lower or all at the upper end
SimDraws == { [NoRead EXCEPT !.noise = 0 - NoisePct, !.hi = FALSE],
              [NoRead EXCEPT !.noise = NoisePct, !.hi = TRUE] }

Readings(acquires) ==
    IF ~acquires THEN {NoRead}
    ELSE IF test_mode THEN SimDraws ELSE LiveReadings

\* failures the environment may still inject
Left == faults_left

\* points: the sends of the handler at which a failure leads somewhere new
Budgets(sends, points) ==
    IF sends /\ ~test_mode /\ connected /\ Left > 0 THEN points \cup {NoFail}
    ELSE {NoFail}

DbChoices(calls) ==
    IF Cardinality(calls) = 0 \/ Left = 0 THEN {DbOk}
    ELSE { d \in DbOracles : \A k \in {"start", "log", "finish"} \ calls :
                                 d[k] = "ok" }

Ups == IF Left > 0 THEN BOOLEAN ELSE {TRUE}

\* failures a choice of inputs asks for
Asked(b, dbo) ==
    (IF b # NoFail THEN 1 ELSE 0) + (IF dbo # DbOk THEN 1 ELSE 0)

CommentChoices(asked) == IF asked THEN Comments ELSE {""}

Bounded(s) ==
    /\ s.faults_left >= 0
    /\ s.tick_jobs <= MaxTickJobs
    /\ Len(s.data_x) <= MaxSamples
    /\ Len(s.sessions) <= MaxSessions

NoReadObs == [ok |-> FALSE, v |-> 0, i |-> 0, p |-> 0, evaluated |-> FALSE]

----------------------------------------------------------------------------
\* __init__: live mode, one connect_instrument() whose outcome is open;
\* clock: the time of the launch, budget: the failures to come
Launched(clock, budget) ==
    /\ running = FALSE
    /\ paused = FALSE
    /\ current_profile_data = << >>
    /\ current_step = 0
    /\ current_discharge_id = -1
    /\ energy_discharged = 0
    /\ start_time = NoTime
    /\ last_time = NoTime
    /\ data_x = << >>
    /\ sim_voltage = SimInitVoltage
    /\ sim_current = 0
    /\ sim_power = 0
    /\ sim_cv_current = SimCvCurrentStart
    /\ step_timeline = << >>
    /\ resume_available = FALSE
    /\ tick_jobs = 0
    /\ now = clock
    /\ sessions = << >>
    /\ faults_left = budget
    /\ lastStateCmd = "none"
    /\ lastOp = "init"
    /\ opArg = ""
    /\ lost_run = FALSE
    /\ reconnect_timers = IF reconnect_job THEN 1 ELSE 0
    /\ opPre = Pre
    /\ opCmds = << >>
    /\ opRead = NoReadObs
    /\ opReport = "none"
    /\ opFinish = << >>
    /\ opEvents = << >>

InitWith(clock, budget, autos) ==
    /\ test_mode = FALSE
    /\ connected \in BOOLEAN
    /\ auto_reconnect \in autos
    /\ reconnect_job = (~connected /\ auto_reconnect)
    /\ Launched(clock, budget)

\* no _migrate_profile_step call under observation
IdleMigration ==
    /\ legacy_step = [type |-> "CC"]
    /\ migrated = << >>

\* no _parse_measurement call under observation
IdleParser ==
    /\ response = NoResponse
    /\ parse_unit = "V"
    /\ parsed = "unparsed"
    /\ IdleMigration

\* start_discharge gets past its checks
StartAccepted(pv) ==
    /\ connected /\ ~running
    /\ pv \in DOMAIN Profiles
    /\ Len(Profiles[pv]) > 0

\* the selected profile; it is not read when the handler returns at its
\* first two checks
StartInputs ==
    IF ~connected \/ running THEN {"cccv"} ELSE ProfileVars

\* "s" key or Start button; the registration-number dialog is answered
StartFrom(pvs) ==
    \E pv \in pvs :
      \E b \in Budgets(StartAccepted(pv), {0, 3, 4, 5, 6}),
         dbo \in DbChoices(IF StartAccepted(pv)
                           THEN {"start", "log", "finish"} ELSE {}),
         rd \in Readings(StartAccepted(pv)),
         cm \in CommentChoices(StartAccepted(pv)) :
        Asked(b, dbo) <= Left /\
        LET Done(s) == Bounded(s) /\ Commit("start_discharge", pv, s)
        IN Done(start_discharge(Cur(b, dbo, rd, cm), pv))

StartDischarge == StartFrom(StartInputs)

\* Start button with one of the profiles of FileProfileVars selected
StartFile == StartFrom(FileProfileVars)

\* Start button with one of the Test-mode profiles selected
StartSim == StartFrom(SimProfileVars)

Acquires == running /\ connected /\ ~paused

\* the timer callback scheduled by master.after(1000, run_update_loop)
Tick ==
    /\ tick_jobs > 0
    /\ now + TickPeriod <= MaxTime
    /\ \E b \in Budgets(Acquires, {0, 3, 4}),
          dbo \in DbChoices(IF Acquires THEN {"log", "finish"}
                            ELSE IF running THEN {"finish"} ELSE {}),
          rd \in Readings(Acquires),
          cm \in CommentChoices(Acquires) :
        Asked(b, dbo) <= Left /\
        LET Done(s) == Bounded(s) /\ Commit("tick", "", s)
        IN Done(run_update_loop(
                    [Cur(b, dbo, rd, cm) EXCEPT !.tick_jobs = @ - 1,
                                                !.now = @ + TickPeriod]))

\* "p" key or Pause button; returns at once when no run is running
TogglePause ==
    /\ running
    /\ \E b \in Budgets(TRUE, {0}), dbo \in DbChoices({"finish"}) :
        Asked(b, dbo) <= Left /\
        LET Done(s) == Bounded(s) /\ Commit("toggle_pause", "", s)
        IN Done(toggle_pause_discharge(Cur(b, dbo, NoRead, "")))

\* "e" key or Stop button, confirmed; returns at once when no run is running
ConfirmStop ==
    /\ running
    /\ \E b \in Budgets(TRUE, {0}), dbo \in DbChoices({"finish"}),
          cm \in Comments :
        Asked(b, dbo) <= Left /\
        LET Done(s) == Bounded(s) /\ Commit("stop", "", s)
        IN Done(confirm_stop_discharge(Cur(b, dbo, NoRead, cm), TRUE))

\* the timer callback of _schedule_reconnect; the *IDN? query inside
\* connect_instrument may fail after the socket connected
ReconnectTick ==
    /\ reconnect_job
    /\ \E up \in IF connected THEN {TRUE} ELSE Ups :
        \E b \in IF up /\ ~connected /\ Left > 0 THEN {0, NoFail}
                  ELSE {NoFail} :
          LET Done(s) == Bounded(s) /\ Commit("reconnect_tick", "", s)
          IN Done(reconnect_tick(Cur(b, DbOk, NoRead, ""), up))

\* Resume button, with the answer to the confirmation dialog; returns at once
\* unless a resume is on offer
ResumeAfterReconnect ==
    /\ resume_available /\ connected /\ ~running
    /\ \E yes \in BOOLEAN :
        \E b \in Budgets(yes, {0, 2, 3}),
           dbo \in DbChoices(IF yes THEN {"log", "finish"} ELSE {}),
           rd \in Readings(yes),
           cm \in CommentChoices(yes) :
          Asked(b, dbo) <= Left /\
          LET Done(s) ==
                  /\ Bounded(s)
                  /\ Commit(IF yes THEN "resume" ELSE "resume_declined",
                            "", s)
          IN Done(_resume_after_reconnect(Cur(b, dbo, rd, cm), yes))

\* Test-mode checkbox
ToggleTestMode ==
    \E up \in IF test_mode /\ ~running THEN Ups ELSE {TRUE} :
      \E b \in IF test_mode /\ ~running /\ up /\ Left > 0
                THEN {0, NoFail} ELSE {NoFail} :
        LET Done(s) == Bounded(s) /\ Commit("toggle_test_mode", "", s)
        IN Done(toggle_test_mode(Cur(b, DbOk, NoRead, ""), up))

Init == InitWith(1, MaxFaults, BOOLEAN) /\ IdleParser

\* live mode only: the Test-mode checkbox is left alone
Next ==
    \/ StartDischarge
    \/ Tick
    \/ TogglePause
    \/ ConfirmStop
    \/ ReconnectTick
    \/ ResumeAfterReconnect

Spec == Init /\ [][Next]_vars

\* both modes
NextMode ==
    \/ StartDischarge
    \/ Tick
    \/ TogglePause
    \/ ConfirmStop
    \/ ReconnectTick
    \/ ResumeAfterReconnect
    \/ ToggleTestMode

InitMode == InitWith(MaxTime - 1, MaxFaults, BOOLEAN) /\ IdleParser

SpecMode == InitMode /\ [][NextMode]_vars

\* handle_connection_loss() called while Test mode is on.  scpi_command and
\* scpi_query return before their sends in Test mode and run_update_loop
\* calls it in live mode only, so this is the method called as such.
SignalLoss ==
    /\ test_mode
    /\ LET Done(s) == Bounded(s) /\ Commit("connection_loss", "", s)
       IN Done(handle_connection_loss(Cur(NoFail, DbOk, NoRead, "")))

\* both modes, with losses signalled in Test mode
NextSignal ==
    \/ StartDischarge
    \/ Tick
    \/ TogglePause
    \/ ConfirmStop
    \/ ReconnectTick
    \/ ResumeAfterReconnect
    \/ ToggleTestMode
    \/ SignalLoss

SpecSignal == InitMode /\ [][NextSignal]_vars

\* live mode with auto-reconnect on and one more failure to come
InitDeep == InitWith(MaxTime - 1, MaxFaults + 1, {TRUE}) /\ IdleParser

SpecDeep == InitDeep /\ [][Next]_vars

\* live mode with the profiles of FileProfileVars
NextFile ==
    \/ StartFile
    \/ Tick
    \/ TogglePause
    \/ ConfirmStop
    \/ ReconnectTick
    \/ ResumeAfterReconnect

SpecFile == Init /\ [][NextFile]_vars

\* Test mode: the state after the Test-mode checkbox was ticked on a freshly
\* launched application (toggle_test_mode: connected, no reconnect pending)
InitSim ==
    /\ test_mode = TRUE
    /\ connected = TRUE
    /\ auto_reconnect \in BOOLEAN
    /\ reconnect_job = FALSE
    /\ Launched(0, MaxFaults)
    /\ IdleParser

NextSim ==
    \/ StartSim
    \/ Tick
    \/ TogglePause

SpecSim == InitSim /\ [][NextSim]_vars

\* Test mode left to run: no failure to come, the operator only starts runs,
\* and Tk fires every timer set with master.after(1000, run_update_loop)
InitRun ==
    /\ test_mode = TRUE
    /\ connected = TRUE
    /\ auto_reconnect \in BOOLEAN
    /\ reconnect_job = FALSE
    /\ Launched(0, 0)
    /\ IdleParser

NextRun ==
    \/ StartSim
    \/ Tick

\* a timer set by master.after is waiting and the clock has room for it
TickPending == tick_jobs > 0 /\ now + TickPeriod <= MaxTime

\* the step in which a waiting timer calls run_update_loop
TickFires == lastOp' = "tick"

\* weak fairness of the timer callback, WF_vars(Tick), written out with the
\* enabling condition of Tick: a timer that stays pending fires
FairTick == []<>(~TickPending) \/ []<><<TickFires>>_vars

SpecRun == InitRun /\ [][NextRun]_vars /\ FairTick

\* _parse_measurement applied to every response of up to MaxRespLen
\* characters, as fetch_measurements applies it to an answer
RespChars == {"1", ".", "-", "e", "V", "a", " "}

Texts(n) == UNION { [1..k -> RespChars] : k \in 0..n }

Responses == {NoResponse} \cup { [got |-> TRUE, text |-> q] : q \in Texts(MaxRespLen) }

InitParse ==
    /\ InitWith(1, 0, {TRUE})
    /\ response \in Responses
    /\ parse_unit \in {"V", "A"}
    /\ parsed = "unparsed"
    /\ IdleMigration

ParseMeasurement ==
    /\ parsed = "unparsed"
    /\ parsed' = _parse_measurement(response, parse_unit)
    /\ UNCHANGED <<test_mode, connected, running, paused,
                   current_profile_data, current_step, current_discharge_id,
                   energy_discharged, start_time, last_time, data_x,
                   sim_voltage, sim_current, sim_power, sim_cv_current,
                   step_timeline, resume_available, reconnect_job,
                   tick_jobs, auto_reconnect, now, sessions, faults_left,
                   lastStateCmd, lastOp, opArg, opPre, opCmds, opRead,
                   opReport, opFinish, opEvents, lost_run,
                   reconnect_timers, response, parse_unit, legacy_step,
                   migrated>>

NextParse == ParseMeasurement

SpecParse == InitParse /\ [][NextParse]_vars

----------------------------------------------------------------------------
\* What the last handler did

Issued(name, arg) ==
    \E k \in DOMAIN opCmds : opCmds[k].name = name /\ opCmds[k].arg = arg

Befell(e) == \E k \in DOMAIN opEvents : opEvents[k] = e

\* the handler ended a run other than by operator stop or profile completion
RunAborted == Befell("lost") \/ Befell("aborted") \/ Befell("resume_failed")

\* sessions created and not yet finalized (no finish_discharge call yet)
OpenSessions == { id \in DOMAIN sessions : sessions[id].finishCalls = 0 }

\* a line whose send failed is not sent again by the same handler
NotResent ==
    \A k \in DOMAIN opCmds :
        opCmds[k].res = "failed" =>
            \A j \in DOMAIN opCmds :
                j > k /\ opCmds[j].name = opCmds[k].name
                      /\ opCmds[j].arg = opCmds[k].arg
                    => opCmds[j].res = "notconn"

\* start_discharge was refused at one of its checks
StartRefused(was_connected, was_running, profile_var) ==
    \/ ~was_connected
    \/ was_running
    \/ profile_var \notin DOMAIN Profiles
    \/ Profiles[profile_var] = << >>

----------------------------------------------------------------------------
\* C1: a handler that aborts a run (connection loss found by a command, a
\* query or a tick, failed step command, unsupported step type, failed
\* INPut:STATe 1 at start or at resume) has issued INPut:STATe 0 in it.
C1_AbortDisablesLoad == RunAborted => Issued("INPut:STATe", "0")

\* C2: in a tick (also the one start and resume run inline) that took a
\* reading while step i was active, current_step becomes i+1 if the monitored
\* value (voltage for a voltage stop, current otherwise) is <= the step's
\* stop_condition_value and stays i if not; a tick without a reading leaves
\* current_step alone, and no tick moves it by more than one.
C2_AdvanceIffStopMet ==
    LET i == IF lastOp = "start_discharge" THEN 0 ELSE opPre.current_step
    IN /\ ( /\ lastOp \in {"tick", "start_discharge", "resume"}
            /\ opRead.ok
            /\ i < Len(current_profile_data) )
          => LET step == current_profile_data[i + 1]
                 monitored == IF step.stop_condition_type = "voltage"
                              THEN opRead.v ELSE opRead.i
             IN current_step =
                    IF monitored <= step.stop_condition_value
                    THEN i + 1 ELSE i
       /\ (lastOp = "tick" /\ ~opRead.ok)
          => current_step = opPre.current_step
       /\ lastOp = "tick"
          => current_step \in {opPre.current_step, opPre.current_step + 1}

\* C3: a handler in which the connection is lost while a run is active leaves
\* running false, has finalized the open session with the comment
\* "Connection Lost - Incomplete" and holds no session any more, has asked
\* for no report, leaves a reconnect attempt pending, and has not sent the
\* failed line again.
C3_LossEndsRun ==
    Befell("lost") =>
        /\ ~running
        /\ \A k \in DOMAIN opFinish : opFinish[k].comment = ConnLostComment
        /\ OpenSessions = {}
        /\ current_discharge_id = -1
        /\ opReport = "none"
        /\ reconnect_job
        /\ NotResent

\* C4: running goes from false to true only in start_discharge or in a
\* confirmed _resume_after_reconnect; the reconnect timer leaves running as
\* it was, and a declined resume leaves running false and resume_available
\* cleared.
C4_NoAutoResume ==
    /\ (running /\ ~opPre.running) => lastOp \in {"start_discharge", "resume"}
    /\ lastOp = "reconnect_tick" => running = opPre.running
    /\ lastOp = "resume_declined" => ~running /\ ~resume_available

\* a reconnect has succeeded after a loss that aborted a run: resume is on
\* offer and the run is not running
C4_Witness ==
    /\ lastOp = "reconnect_tick"
    /\ ~opPre.connected /\ connected
    /\ resume_available /\ ~running
    /\ Len(sessions) > 0

\* C5: finish_discharge is called at most once for every session, and once
\* its run is over it has been called exactly once.
C5_FinalizedExactlyOnce ==
    \A id \in DOMAIN sessions :
        /\ sessions[id].finishCalls <= 1
        /\ (~running \/ id # current_discharge_id)
           => sessions[id].finishCalls = 1

\* C6: at most one session is open at any time.
C6_OneOpenSession == Cardinality(OpenSessions) <= 1

\* a second session has been created after the first one was finalized
C6_Witness ==
    /\ lastOp = "start_discharge"
    /\ Len(sessions) = 2
    /\ sessions[1].finishCalls = 1
    /\ sessions[2].finishCalls = 0
    /\ running /\ current_discharge_id = 2

\* C7: when session creation fails or INPut:STATe 1 fails in live mode,
\* start_discharge ends with running false, no step command sent, no tick
\* scheduled and no session left open; after a failed creation INPut:STATe 1
\* is not sent either.
C7_FailedStartLeavesIdle ==
    [][ ( /\ lastOp' = "start_discharge"
          /\ \/ \E k \in DOMAIN opEvents' : opEvents'[k] = "create_failed"
             \/ /\ ~test_mode
                /\ \E k \in DOMAIN opCmds' :
                     /\ opCmds'[k].name = "INPut:STATe"
                     /\ opCmds'[k].arg = "1"
                     /\ opCmds'[k].res \in {"failed", "notconn"} )
        => /\ ~running'
           /\ \A k \in DOMAIN opCmds' :
                opCmds'[k].name \notin {"INPut:FUNCtion", "STATic:HIGH:LEVel"}
           /\ tick_jobs' = tick_jobs
           /\ \A id \in DOMAIN sessions' : sessions'[id].finishCalls > 0
           /\ ( (\E k \in DOMAIN opEvents' : opEvents'[k] = "create_failed")
                => \A k \in DOMAIN opCmds' :
                     ~(opCmds'[k].name = "INPut:STATe"
                       /\ opCmds'[k].arg = "1") ) ]_vars

C9_PausedTickIdle ==
    [][ (lastOp' = "tick" /\ running /\ paused)
        => /\ UNCHANGED <<running, paused, energy_discharged, data_x,
                          last_time, current_step, sessions,
                          current_discharge_id, lastStateCmd>>
           /\ opCmds' = << >>
           /\ ~opRead'.ok /\ ~opRead'.evaluated
           /\ tick_jobs' = tick_jobs ]_vars

\* a tick has fired in a paused run that holds a sample
C9_Witness ==
    /\ lastOp = "tick"
    /\ opPre.running /\ opPre.paused
    /\ running /\ paused
    /\ Len(data_x) > 0

\* C10: a tick that fires while running is false takes no reading, sends
\* nothing, adds no sample, leaves the energy alone and schedules no tick.
C10_IdleTickNoOp ==
    [][ (lastOp' = "tick" /\ ~running)
        => /\ UNCHANGED <<running, paused, connected, energy_discharged,
                          data_x, last_time, current_step, sessions,
                          current_discharge_id, lastStateCmd>>
           /\ opCmds' = << >>
           /\ ~opRead'.ok
           /\ tick_jobs' = tick_jobs - 1 ]_vars

\* a tick left over from a run that has ended has fired
C10_Witness ==
    /\ lastOp = "tick"
    /\ ~opPre.running /\ ~running
    /\ Len(sessions) > 0
    /\ tick_jobs = 0

\* an answer of the instrument in its format: a number, then optionally
\* blanks and the unit letter
WellFormed(text, unit) ==
    LET t == Strip(text)
        body == IF Len(t) > 0 /\ Upper(t[Len(t)]) = Upper(unit)
                THEN Strip(SubSeq(t, 1, Len(t) - 1)) ELSE t
    IN FloatSyntax(UpperAll(body))

\* C11: _parse_measurement returns the failure value None, and raises
\* nothing, for every response that is not a well-formed answer (such as
\* "abc"), so that the reading of the tick fails and the tick is skipped.
C11_MalformedRejected ==
    (parsed # "unparsed" /\ response.got
        /\ ~WellFormed(response.text, parse_unit))
    => parsed = "None"

\* C12: in Test mode a tick whose simulated acquisition fails aborts the
\* run: running becomes false, finish_discharge is called for the session, no
\* report is generated and the tick is not scheduled again.
C12_SimFailureAborts ==
    [][ (/\ lastOp' = "tick"
         /\ test_mode /\ running /\ connected /\ ~paused
         /\ ~opRead'.ok)
        => /\ ~running'
           /\ \E k \in DOMAIN opFinish' :
                  opFinish'[k].id = current_discharge_id
           /\ opReport' = "none"
           /\ tick_jobs' = tick_jobs - 1 ]_vars

C12_Witness ==
    /\ lastOp = "tick"
    /\ opPre.test_mode /\ opPre.running /\ opPre.connected /\ ~opPre.paused
    /\ opPre.current_step = 1
    /\ ~opRead.ok
    /\ ~running
    /\ Len(opFinish) = 1
    /\ opReport = "none"

\* C13: a tick whose sample could not be written to the database (the INSERT
\* failed or the database could not be opened) keeps the sample in memory and
\* evaluates the stop condition of the active step: current_step advances by
\* one if it is met, and if it is not met the run keeps running with the
\* next tick scheduled.
C13_LogFailureHarmless ==
    (/\ lastOp = "tick"
     /\ Befell("log_failed") \/ Befell("log_raised")
     /\ opPre.current_step < Len(current_profile_data))
    => LET step == current_profile_data[opPre.current_step + 1]
           met == StopMet(step, opRead.v, opRead.i)
       IN /\ Len(data_x) > 0
          /\ opRead.evaluated
          /\ current_step = opPre.current_step + (IF met THEN 1 ELSE 0)
          /\ ~met => running /\ tick_jobs > 0

\* C14: a handler that came to apply a step whose type is none of CC, CP, CV
\* has sent neither INPut:FUNCtion nor a STATic level command, leaves running
\* false, has called finish_discharge for the session of the run and has
\* asked for no report.
C14_UnsupportedAborts ==
    Befell("unsupported")
    => /\ \A k \in DOMAIN opCmds :
              opCmds[k].name \notin {"INPut:FUNCtion", "STATic:HIGH:LEVel"}
       /\ ~running
       /\ LET id == IF lastOp = "start_discharge" THEN Len(sessions)
                    ELSE opPre.current_discharge_id
          IN id >= 1 => sessions[id].finishCalls >= 1
       /\ opReport = "none"

C14_Witness ==
    /\ Befell("unsupported")
    /\ lastOp = "start_discharge"
    /\ opArg = "bad"
    /\ Issued("INPut:STATe", "1")
    /\ ~running
    /\ sessions[Len(sessions)].finishCalls = 1

\* C15: no STATic:<type>:HIGH:LEVel line with a value <= 0 reaches the
\* instrument, and start_discharge sends the level of the first step only if
\* the step's value and stop_condition_value (after migration) are positive.
C15_NonPositiveRejected ==
    /\ \A k \in DOMAIN opCmds :
           (opCmds[k].name = "STATic:HIGH:LEVel" /\ opCmds[k].res = "sent")
           => opCmds[k].val > 0
    /\ ( /\ lastOp = "start_discharge"
         /\ \E k \in DOMAIN opCmds :
                opCmds[k].name = "STATic:HIGH:LEVel" /\ opCmds[k].res = "sent" )
       => /\ current_profile_data[1].value > 0
          /\ current_profile_data[1].stop_condition_value > 0

\* C16: create_discharge_certificate is called only in a handler whose
\* stop_discharge found the run running and was asked for a report, with at
\* least one sample in memory and with no session left unfinalized: the
\* session the run held was passed to finish_discharge in the same handler,
\* before the call.  It is never called in a handler that ended the run on a
\* connection loss, a failed command, an unsupported step type or a failed
\* simulation.
C16_ReportAfterFinalize ==
    opReport # "none"
    => /\ Befell("reported")
       /\ Len(data_x) > 0
       /\ OpenSessions = {}
       /\ LET id == IF lastOp = "start_discharge" THEN Len(sessions)
                    ELSE opPre.current_discharge_id
          IN id >= 1 => \E k \in DOMAIN opFinish : opFinish[k].id = id
       /\ ~Befell("lost") /\ ~Befell("aborted") /\ ~Befell("unsupported")

C16_Witness ==
    /\ opReport = "generated"
    /\ lastOp = "tick"
    /\ opPre.running
    /\ current_step = Len(current_profile_data)
    /\ Len(opFinish) = 1
    /\ ~running

\* C17: in live mode a handler that applies a step sends INPut:FUNCtion <type>
\* and then STATic:<type>:HIGH:LEVel <value> for the same step, the level
\* line directly after the function line; if either line was not sent, the
\* handler leaves running false, finish_discharge was called for the session
\* the run held, and no report is requested.
C17_FunctionThenLevel ==
    LET live(k) == opCmds[k].res # "bypassed"
        func(k) == opCmds[k].name = "INPut:FUNCtion"
        level(k) == opCmds[k].name = "STATic:HIGH:LEVel"
        id == IF lastOp = "start_discharge" THEN Len(sessions)
              ELSE opPre.current_discharge_id
    IN /\ \A k \in DOMAIN opCmds :
            (level(k) /\ live(k))
            => /\ k > 1 /\ func(k - 1)
               /\ opCmds[k - 1].arg = opCmds[k].arg
               /\ \E j \in DOMAIN current_profile_data :
                      /\ current_profile_data[j].type = opCmds[k].arg
                      /\ current_profile_data[j].value = opCmds[k].val
       /\ \A k \in DOMAIN opCmds :
            (func(k) /\ opCmds[k].res = "sent")
            => k + 1 \in DOMAIN opCmds /\ level(k + 1)
       /\ (\E k \in DOMAIN opCmds :
             (func(k) \/ level(k)) /\ opCmds[k].res \in {"failed", "notconn"})
          => /\ ~running
             /\ id >= 1 => sessions[id].finishCalls >= 1
             /\ opReport = "none"

C17_Witness ==
    /\ lastOp = "tick"
    /\ opPre.running /\ ~opPre.test_mode
    /\ current_step = opPre.current_step + 1
    /\ \E k \in DOMAIN opCmds :
          /\ opCmds[k].name = "INPut:FUNCtion" /\ opCmds[k].res = "sent"
          /\ opCmds[k + 1].name = "STATic:HIGH:LEVel"
          /\ opCmds[k + 1].res = "failed"
    /\ ~running
    /\ sessions[opPre.current_discharge_id].finishCalls = 1

\* the values of all steps are numbers
NumericProfile(steps) == \A k \in DOMAIN steps : ~TextValued(steps[k])

\* the profile ran to its end: the run was stopped with a report
Completed ==
    /\ ~running
    /\ current_step = Len(current_profile_data)
    /\ Issued("INPut:STATe", "0")
    /\ Len(opFinish) = 1
    /\ sessions[opFinish[1].id].finishCalls = 1
    /\ Befell("reported")
    /\ opReport = "generated"

\* C18: in Test mode an unpaused run of a profile whose thresholds the
\* simulation reaches is followed, when every scheduled tick fires, by a
\* state in which the profile is complete: current_step = len(steps), running
\* false, INPut:STATe 0 issued, finish_discharge called for the session and
\* the certificate requested.
C18_SimRunCompletes ==
    (running /\ test_mode /\ ~paused /\ NumericProfile(current_profile_data))
    ~> Completed

C18_Witness ==
    /\ lastOp = "tick"
    /\ opPre.test_mode /\ opPre.running /\ ~opPre.paused
    /\ opPre.current_step = 1
    /\ Len(current_profile_data) = 2
    /\ Completed

\* C19: in live mode with auto-reconnect on, whenever the controller is
\* disconnected (by a loss or by a failed connection attempt) a reconnect
\* attempt is pending; the pending attempt is what brings the connection
\* back once the instrument is reachable.
C19_ReconnectPending ==
    (~connected /\ ~test_mode /\ auto_reconnect) => reconnect_job

\* C20: a reconnect timer is set (newly, or again by the timer callback) only
\* in live mode with auto_reconnect on, and handle_connection_loss called in
\* Test mode leaves running, the connection, the held session and the
\* database rows as they were and finalizes nothing.
C20_NoReconnectInTestMode ==
    [][ /\ (reconnect_job' /\ (~reconnect_job \/ lastOp' = "reconnect_tick"))
           => (~test_mode' /\ auto_reconnect)
        /\ (lastOp' = "connection_loss" /\ test_mode)
           => /\ running' = running
              /\ paused' = paused
              /\ connected' = connected
              /\ current_discharge_id' = current_discharge_id
              /\ sessions' = sessions
              /\ reconnect_job' = reconnect_job
              /\ opFinish' = << >> ]_vars

C20_Witness ==
    /\ lastOp = "connection_loss"
    /\ opPre.test_mode /\ opPre.running
    /\ running /\ connected
    /\ current_discharge_id = opPre.current_discharge_id
    /\ current_discharge_id >= 1
    /\ sessions[current_discharge_id].finishCalls = 0
    /\ ~reconnect_job

\* C21: a reconnect offers a resume only when a run was running at the moment
\* the connection was lost; no resume is offered when the last run was stopped
\* or finished before the loss, and an offer left from an earlier loss is not
\* used to resume a run started later. As steps: resume_available goes from
\* false to true only while a run interrupted by the loss is waiting, and a
\* confirmed resume continues only such a run.
C21_ResumeOnlyLostRun ==
    [][ /\ (resume_available' /\ ~resume_available) => lost_run'
        /\ lastOp' = "resume" => lost_run ]_vars

----------------------------------------------------------------------------
\* stop_discharge called while no run is running, with either value of
\* generate_report
StopIdle ==
    /\ ~running
    /\ \E gr \in BOOLEAN, b \in Budgets(TRUE, {0}),
          dbo \in DbChoices({"finish"}) :
        Asked(b, dbo) <= Left /\
        LET Done(s) == Bounded(s) /\ Commit("stop_idle", "", s)
        IN Done(stop_discharge(Cur(b, dbo, NoRead, "note"), gr))

NextStop ==
    \/ StartDischarge
    \/ Tick
    \/ TogglePause
    \/ ConfirmStop
    \/ ReconnectTick
    \/ ResumeAfterReconnect
    \/ StopIdle

SpecStop == Init /\ [][NextStop]_vars

\* the run state of the controller
RunState ==
    <<running, paused, current_profile_data, current_step,
      current_discharge_id, energy_discharged, start_time, last_time, data_x,
      step_timeline, resume_available, tick_jobs, sessions, test_mode>>

\* stop_discharge found the connection lost on its INPut:STATe 0
StopFoundLoss == \E k \in DOMAIN opCmds : opCmds[k].res = "failed"

\* C22: stop_discharge called while no run is running changes nothing:
\* running stays false, finish_discharge is called for no session, no report
\* is generated and the run state after the call is the run state before it
\* (the connection state changes only when the send of INPut:STATe 0 fails).
C22_IdleStopNoOp ==
    [][ lastOp' = "stop_idle" =>
            /\ RunState' = RunState
            /\ ~running'
            /\ opFinish' = << >>
            /\ opReport' = "none"
            /\ ~StopFoundLoss' => (connected' = connected
                                   /\ reconnect_job' = reconnect_job) ]_vars

----------------------------------------------------------------------------
\* The status poll, every 2 s once a connection was made: in live mode and
\* connected it asks for the input state and the function; otherwise it only
\* sets the badges. Whatever is raised inside is passed over.
_status_poll_tick(s) ==
    IF s.test_mode \/ ~s.connected THEN s
    ELSE LET Function(q) ==
                 IF q.exc THEN q ELSE scpi_query(q, "INPut:FUNCtion")
         IN Caught(Function(scpi_query(s, "INPut:STATe")))

StatusPoll ==
    /\ connected /\ ~test_mode
    /\ \E b \in Budgets(TRUE, {0, 1}), dbo \in DbChoices({"finish"}) :
        Asked(b, dbo) <= Left /\
        LET Done(s) == Bounded(s) /\ Commit("status_poll", "", s)
        IN Done(_status_poll_tick(Cur(b, dbo, NoRead, "")))

NextPoll ==
    \/ StartDischarge
    \/ Tick
    \/ TogglePause
    \/ ConfirmStop
    \/ ReconnectTick
    \/ ResumeAfterReconnect
    \/ StatusPoll

\* one failure per run of the program
SpecPoll == Init /\ [][NextPoll]_vars

\* a send and the database may fail in the same handler
SpecPollDeep == InitDeep /\ [][NextPoll]_vars

\* C23: a transport loss ends the run from every state in which a run is
\* active, Paused included: the handler that finds the connection lost leaves
\* running and paused false, has called finish_discharge for the open
\* session with the comment "Connection Lost - Incomplete", and leaves a
\* reconnect attempt scheduled when auto-reconnect is on.
C23_LossAbortsPaused ==
    Befell("lost") =>
        /\ ~running /\ ~paused
        /\ opPre.current_discharge_id >= 1 =>
              \E k \in DOMAIN opFinish :
                  /\ opFinish[k].id = opPre.current_discharge_id
                  /\ opFinish[k].comment = ConnLostComment
        /\ auto_reconnect => reconnect_job

\* C24: in Test mode nothing is written to the socket: every command and
\* every query a handler issues while Test mode is on is bypassed (the
\* command reports success, the query gets a simulated answer), whatever the
\* sequence of starts, pauses, stops, ticks and mode changes.
C24_TestModeNoIO ==
    test_mode => \A k \in DOMAIN opCmds : opCmds[k].res = "bypassed"

\* a tick in Test mode whose sample met the stop condition: the next step
\* was applied, with its commands bypassed
C24_Witness ==
    /\ test_mode /\ opPre.test_mode
    /\ lastOp = "tick"
    /\ opRead.ok
    /\ \E k \in DOMAIN opCmds : opCmds[k].name = "INPut:FUNCtion"

----------------------------------------------------------------------------
\* Live readings with the sign _parse_measurement lets through: the answer
\* "-1" to MEASure:POWer? passes the character test (which admits one "-")
\* and float() gives -1.0
NegativePower == [got |-> TRUE, text |-> <<"-", "1">>]

SignedReadings ==
    LiveReadings \cup
    (IF _parse_measurement(NegativePower, "W") = "float"
     THEN { [NoRead EXCEPT !.v = 39990, !.i = 1000, !.p = 0 - 1] }
     ELSE {})

\* the timer callback of run_update_loop, the instrument answering with any
\* of SignedReadings
TickSigned ==
    /\ tick_jobs > 0
    /\ now + TickPeriod <= MaxTime
    /\ \E b \in Budgets(Acquires, {0, 3, 4}),
          dbo \in DbChoices(IF Acquires THEN {"log", "finish"}
                            ELSE IF running THEN {"finish"} ELSE {}),
          rd \in IF Acquires THEN SignedReadings ELSE {NoRead},
          cm \in CommentChoices(Acquires) :
        Asked(b, dbo) <= Left /\
        LET Done(s) == Bounded(s) /\ Commit("tick", "", s)
        IN Done(run_update_loop(
                    [Cur(b, dbo, rd, cm) EXCEPT !.tick_jobs = @ - 1,
                                                !.now = @ + TickPeriod]))

NextSigned ==
    \/ StartDischarge
    \/ TickSigned
    \/ TogglePause
    \/ ConfirmStop
    \/ ReconnectTick
    \/ ResumeAfterReconnect

SpecSigned == Init /\ [][NextSigned]_vars

\* C25: the accumulated energy never decreases in a tick, whatever reading
\* the source delivers (a simulated one or a parsed answer of the instrument)
\* and in particular in the ticks whose interval is valid (0 < dt < 5.0).
C25_EnergyMonotone ==
    [][ lastOp' = "tick" => energy_discharged' >= energy_discharged ]_vars

----------------------------------------------------------------------------
\* master.after(1000, ...) is a lower limit: the callback of run_update_loop
\* may come late, here MaxStepTime seconds after it was scheduled
LateTime == MaxTime + MaxStepTime

TickLate ==
    /\ tick_jobs > 0
    /\ now + MaxStepTime <= LateTime
    /\ \E b \in Budgets(Acquires, {0}),
          dbo \in DbChoices(IF Acquires THEN {"log", "finish"}
                            ELSE IF running THEN {"finish"} ELSE {}),
          rd \in Readings(Acquires),
          cm \in CommentChoices(Acquires) :
        Asked(b, dbo) <= Left /\
        LET Done(s) == Bounded(s) /\ Commit("tick", "late", s)
        IN Done(run_update_loop(
                    [Cur(b, dbo, rd, cm) EXCEPT !.tick_jobs = @ - 1,
                                                !.now = @ + MaxStepTime]))

NextLate ==
    \/ StartDischarge
    \/ Tick
    \/ TickLate
    \/ TogglePause
    \/ ConfirmStop
    \/ ReconnectTick
    \/ ResumeAfterReconnect

\* launched with the instrument reachable and auto-reconnect on
InitLate == InitWith(1, MaxFaults, {TRUE}) /\ connected /\ IdleParser

SpecLate == InitLate /\ [][NextLate]_vars

\* C26: a tick with a successful reading adds power * dt to the energy
\* (W s; the code divides by 3 600 000 for kWh) when dt, the time since the
\* last tick, satisfies 0 < dt < 5.0, adds exactly nothing otherwise, and sets
\* the last-tick timestamp to the time of the tick in both cases.
C26_EnergyPerTick ==
    [][ (lastOp' = "tick" /\ opRead'.ok) =>
            /\ energy_discharged' =
                  energy_discharged +
                  (IF /\ start_time # NoTime /\ last_time # NoTime
                      /\ 0 < now' - last_time
                      /\ now' - last_time < MaxStepTime
                   THEN opRead'.p * (now' - last_time) ELSE 0)
            /\ last_time' = now' ]_vars

\* a first tick that came MaxStepTime seconds after the start: the reading
\* carried power, nothing was added, and the timestamp moved on
C26_Witness ==
    /\ lastOp = "tick" /\ opArg = "late"
    /\ opRead.ok /\ opRead.p > 0
    /\ Len(data_x) = 1
    /\ energy_discharged = 0
    /\ last_time = now

\* C27: the energy of a run changes only by the integration of a tick: an
\* accepted start_discharge leaves it at zero, a tick (also the one a resume
\* after reconnect runs inline) adds the contribution of its reading, and
\* every other handler (refused start, pause, resume, stop, skipped tick,
\* connection loss, reconnect) leaves it as it was; the energy handed to
\* finish_discharge is the accumulated energy, the sum of the contributions.
C27_EnergyOnlyByTicks ==
    [][ /\ lastOp' = "start_discharge" =>
              energy_discharged' =
                  IF StartRefused(connected, running, opArg')
                  THEN energy_discharged ELSE 0
        /\ lastOp' \in {"tick", "resume"} =>
              energy_discharged' =
                  energy_discharged +
                  (IF /\ opRead'.ok
                      /\ start_time # NoTime /\ last_time # NoTime
                      /\ 0 < now' - last_time
                      /\ now' - last_time < MaxStepTime
                   THEN opRead'.p * (now' - last_time) ELSE 0)
        /\ lastOp' \notin {"start_discharge", "tick", "resume"} =>
              energy_discharged' = energy_discharged
        /\ \A k \in DOMAIN opFinish' :
              opFinish'[k].energy = energy_discharged' ]_vars

\* the operator stopped a run of two samples: finish_discharge got the sum
\* of the two contributions
C27_Witness ==
    /\ lastOp = "stop"
    /\ Len(data_x) = 2
    /\ energy_discharged > 0
    /\ Len(opFinish) = 1
    /\ opFinish[1].energy = energy_discharged

\* C28: while a run is running the step timeline has exactly one open row
\* (end_s unset), the last one, opened when the step in force was applied;
\* and after a run that completed its profile the timeline has one closed row
\* for each step applied.
C28_OneOpenTimelineRow ==
    /\ running =>
          /\ Len(step_timeline) > 0
          /\ \A k \in DOMAIN step_timeline :
                (step_timeline[k].end_s = NoTime) <=> (k = Len(step_timeline))
    /\ Completed =>
          /\ Len(step_timeline) = Len(current_profile_data)
          /\ \A k \in DOMAIN step_timeline : step_timeline[k].end_s # NoTime

\* C29: at most one call of run_update_loop is scheduled at any time, over
\* every sequence of start, stop, restart, connection loss and resume after
\* reconnect: a start or a resume adds no second timer to one still pending
\* from an earlier run.
C29_OneTickPending == tick_jobs <= 1

\* C30: a toggle_pause_discharge that resumes a paused run sets last_time to
\* the time of the resume, so that the tick following the resume integrates
\* the time since the resume only (none of the paused interval), and neither
\* pausing nor resuming changes start_time.
C30_ResumeRefreshesLastTime ==
    [][ /\ lastOp' = "toggle_pause" => start_time' = start_time
        /\ (/\ lastOp' = "toggle_pause" /\ running /\ paused
            /\ running' /\ ~paused')
              => last_time' = now'
        /\ (/\ lastOp = "toggle_pause" /\ opPre.paused /\ running /\ ~paused
            /\ lastOp' = "tick" /\ opRead'.ok)
              => energy_discharged' =
                    energy_discharged +
                    (IF 0 < now' - now /\ now' - now < MaxStepTime
                     THEN opRead'.p * (now' - now) ELSE 0) ]_vars

\* a run was resumed after a pause during which time went by
C30_Witness ==
    /\ lastOp = "toggle_pause"
    /\ opPre.running /\ opPre.paused
    /\ running /\ ~paused
    /\ last_time = now
    /\ start_time # NoTime /\ start_time < now
    /\ Len(data_x) < MaxSamples
    /\ tick_jobs > 0
    /\ now + TickPeriod <= MaxTime

----------------------------------------------------------------------------
\* _migrate_profile_step applied to every step of the old and the present
\* format, and once more to what it returned
WithField(steps, k, vals) ==
    steps \cup { [j \in DOMAIN st \cup {k} |-> IF j = k THEN v ELSE st[j]] :
                   st \in steps, v \in vals }

LegacySteps ==
    WithField(
      WithField(
        WithField(
          WithField({ [value |-> 1000] }, "type", {"CC", "CP", "CV", "cv"}),
          "stop_voltage", {0, 39988}),
        "stop_condition_type", {"voltage", "current"}),
      "stop_condition_value", {470, 39988})

InitMigrate ==
    /\ InitWith(1, 0, {TRUE})
    /\ response = NoResponse
    /\ parse_unit = "V"
    /\ parsed = "unparsed"
    /\ legacy_step \in LegacySteps
    /\ migrated = << >>

MigrateStep ==
    /\ Len(migrated) < 2
    /\ migrated' = Append(migrated,
                          _migrate_profile_step(IF Len(migrated) = 0
                                                THEN legacy_step
                                                ELSE Last(migrated)))
    /\ UNCHANGED <<test_mode, connected, running, paused,
                   current_profile_data, current_step, current_discharge_id,
                   energy_discharged, start_time, last_time, data_x,
                   sim_voltage, sim_current, sim_power, sim_cv_current,
                   step_timeline, resume_available, reconnect_job,
                   tick_jobs, auto_reconnect, now, sessions, faults_left,
                   lastStateCmd, lastOp, opArg, opPre, opCmds, opRead,
                   opReport, opFinish, opEvents, lost_run,
                   reconnect_timers, response, parse_unit, parsed,
                   legacy_step>>

NextMigrate == MigrateStep

SpecMigrate == InitMigrate /\ [][NextMigrate]_vars

\* the step has the fields of the present format
Migrated(step) == "stop_condition_type" \in DOMAIN step

\* C31: migrating a step without stop_condition_type gives it the stop
\* condition current/0.1 A when its type (in upper case) is CV, and
\* voltage/<its stop_voltage, 0.0 V when it has none> otherwise, takes
\* stop_voltage away and keeps the other fields; a step that has
\* stop_condition_type comes back unchanged; and migrating the result again
\* changes nothing.
C31_MigrationIdempotent ==
    /\ Len(migrated) >= 1 =>
          IF Migrated(legacy_step) THEN migrated[1] = legacy_step
          ELSE /\ DOMAIN migrated[1] =
                     (DOMAIN legacy_step \ {"stop_voltage"})
                        \cup {"stop_condition_type", "stop_condition_value"}
               /\ \A k \in DOMAIN legacy_step \
                            {"stop_voltage", "stop_condition_value"} :
                      migrated[1][k] = legacy_step[k]
               /\ IF "type" \in DOMAIN legacy_step
                     /\ legacy_step.type \in {"CV", "cv"}
                  THEN /\ migrated[1].stop_condition_type = "current"
                       /\ migrated[1].stop_condition_value = 10
                  ELSE /\ migrated[1].stop_condition_type = "voltage"
                       /\ migrated[1].stop_condition_value =
                             IF "stop_voltage" \in DOMAIN legacy_step
                             THEN legacy_step.stop_voltage ELSE 0
    /\ Len(migrated) = 2 => migrated[2] = migrated[1]

\* a CC step of the old format with a stop_voltage, migrated twice
C31_Witness ==
    /\ Len(migrated) = 2
    /\ ~Migrated(legacy_step)
    /\ "stop_voltage" \in DOMAIN legacy_step
    /\ "type" \in DOMAIN legacy_step /\ legacy_step.type = "CC"
    /\ legacy_step.stop_voltage > 0
    /\ migrated[2].stop_condition_type = "voltage"
    /\ migrated[2].stop_condition_value = legacy_step.stop_voltage

\* C32: whenever the last INPut:STATe line that reached the instrument is
\* INPut:STATe 1, a run is active: running is true and paused is false.
C32_InputOnOnlyWhileActive ==
    lastStateCmd = "1" => (running /\ ~paused)

\* C33: a tick that records a sample (also the tick a resume after reconnect
\* runs inline) finds a session held: current_discharge_id is the id of a
\* session not yet finalized, and the sample is handed to log_data_point for
\* it (the row is stored unless the database fails in that call).
C33_SampleHasSession ==
    [][ (lastOp' \in {"tick", "resume"} /\ opRead'.ok) =>
            /\ current_discharge_id >= 1
            /\ sessions[current_discharge_id].finishCalls = 0
            /\ \/ sessions'[current_discharge_id].rows
               \/ \E k \in DOMAIN opEvents' :
                      opEvents'[k] \in {"log_failed", "log_raised"} ]_vars

\* C34: a confirmed resume after reconnect continues at the step index held
\* when the handler was entered: current_step changes only when the tick
\* the handler runs inline advances it by one after evaluating the stop
\* condition, and the profile is unchanged.  Every INPut:STATe 1 the
\* handler sends is its third command, directly after INPut:FUNCtion
\* <type> and STATic:<type>:HIGH:LEVel <value> of that step, both sent.
\* The handler always issues INPut:STATe 1, and if that command fails,
\* running is false afterwards.
C34_ResumeReappliesStep ==
    [][ lastOp' = "resume" =>
          LET on(k) == /\ opCmds'[k].name = "INPut:STATe"
                       /\ opCmds'[k].arg = "1"
          IN /\ current_step < Len(current_profile_data)
             /\ \A k \in DOMAIN opCmds' :
                  (on(k) /\ opCmds'[k].res = "sent") =>
                      /\ k = 3
                      /\ opCmds'[1].name = "INPut:FUNCtion"
                      /\ opCmds'[1].arg =
                             current_profile_data[current_step + 1].type
                      /\ opCmds'[1].res = "sent"
                      /\ opCmds'[2].name = "STATic:HIGH:LEVel"
                      /\ opCmds'[2].arg =
                             current_profile_data[current_step + 1].type
                      /\ opCmds'[2].val =
                             current_profile_data[current_step + 1].value
                      /\ opCmds'[2].res = "sent"
             /\ (\E k \in DOMAIN opCmds' :
                    on(k) /\ opCmds'[k].res \in {"failed", "notconn"})
                    => ~running'
             /\ \E k \in DOMAIN opCmds' : on(k)
             /\ current_profile_data' = current_profile_data
             /\ current_step' # current_step =>
                    (opRead'.evaluated /\ current_step' = current_step + 1)
      ]_vars

\* C35: at most one reconnect attempt is pending at any time: the number
\* of reconnect timers Tk holds is 1 when _reconnect_job holds a handle and
\* 0 otherwise, and a handler in which connect_instrument opened the
\* socket (it sent *IDN?) and no send failed afterwards leaves no attempt
\* pending.
C35_OneReconnectPending ==
    /\ reconnect_timers = IF reconnect_job THEN 1 ELSE 0
    /\ (/\ Issued("*IDN", "?")
        /\ \A k \in DOMAIN opCmds : opCmds[k].res # "failed")
       => ~reconnect_job

\* the reconnect attempt's own connect failed while the loss had already
\* been signalled: one attempt is pending again, not two
C35_Witness ==
    /\ lastOp = "reconnect_tick"
    /\ ~connected
    /\ reconnect_job
    /\ reconnect_timers = 1

----------------------------------------------------------------------------
\* The Pause button's handler called while no run is running

TogglePauseIdle ==
    /\ ~running
    /\ \E b \in Budgets(TRUE, {0}) :
        LET Done(s) == Bounded(s) /\ Commit("toggle_pause_idle", "", s)
        IN Done(toggle_pause_discharge(Cur(b, DbOk, NoRead, "")))

NextPause ==
    \/ StartDischarge
    \/ Tick
    \/ TogglePause
    \/ TogglePauseIdle
    \/ ConfirmStop
    \/ ReconnectTick
    \/ ResumeAfterReconnect

SpecPause == Init /\ [][NextPause]_vars

\* the pause handler's only command, INPut:STATe <arg>, went through
Switched(cmds, arg) ==
    /\ Len(cmds) = 1
    /\ cmds[1].name = "INPut:STATe" /\ cmds[1].arg = arg
    /\ cmds[1].res \in {"sent", "bypassed"}

\* C36: toggle_pause_discharge sets paused only when its INPut:STATe 0
\* went through and clears it only when its INPut:STATe 1 went through or
\* the connection loss found by the failed send ended the run; a failed
\* pause leaves paused false; a paused live run implies that the last
\* INPut:STATe line the instrument received was INPut:STATe 0; called
\* while no run is running the handler sends nothing and changes nothing.
C36_PauseFollowsCommand ==
    [][ /\ (paused' /\ ~test_mode') => lastStateCmd' = "0"
        /\ (lastOp' = "toggle_pause" /\ paused' /\ ~paused)
            => Switched(opCmds', "0")
        /\ (lastOp' = "toggle_pause" /\ ~paused' /\ paused)
            => \/ Switched(opCmds', "1")
               \/ ~running' /\ Befell("lost")'
        /\ (/\ lastOp' = "toggle_pause"
            /\ \E k \in DOMAIN opCmds' :
                  opCmds'[k].res \in {"failed", "notconn"})
            => ~paused' /\ (paused => ~running')
        /\ lastOp' = "toggle_pause_idle"
            => /\ opCmds' = << >>
               /\ RunState' = RunState
               /\ connected' = connected
               /\ reconnect_job' = reconnect_job
               /\ lastStateCmd' = lastStateCmd ]_vars

\* a pause whose send failed: the run is not paused
C36_Witness ==
    /\ lastOp = "toggle_pause"
    /\ opPre.running /\ ~opPre.paused
    /\ Len(opCmds) >= 1 /\ opCmds[1].res = "failed"
    /\ ~paused

----------------------------------------------------------------------------
\* Both modes with one more failure to come: the application starts
\* connected with auto-reconnect on, the operator starts runs, toggles the
\* mode and confirms resumes

InitModeDeep ==
    InitWith(MaxTime - 1, MaxFaults + 1, {TRUE}) /\ connected /\ IdleParser

NextModeDeep ==
    \/ StartDischarge
    \/ Tick
    \/ ReconnectTick
    \/ ResumeAfterReconnect
    \/ ToggleTestMode

SpecModeDeep == InitModeDeep /\ [][NextModeDeep]_vars

\* what a handler in the given mode does with the instrument: in Test mode
\* every line is bypassed, in live mode none is
InMode(cmds, mode) ==
    \A k \in DOMAIN cmds : (cmds[k].res = "bypassed") <=> (mode = "Test")

\* C37: the mode never changes in a handler entered while a run is
\* running; toggle_test_mode called during a run restores the mode and
\* leaves the connection, the reconnect timer, the simulation and the run
\* as they were and sends nothing; every tick that records a sample for a
\* session runs in the mode recorded for that session at its start.
C37_ModeFixedDuringRun ==
    [][ /\ running => test_mode' = test_mode
        /\ (lastOp' = "toggle_test_mode" /\ running)
            => /\ RunState' = RunState
               /\ connected' = connected
               /\ reconnect_job' = reconnect_job
               /\ <<sim_voltage, sim_current, sim_power, sim_cv_current>>' =
                      <<sim_voltage, sim_current, sim_power, sim_cv_current>>
               /\ opCmds' = << >>
        /\ (/\ lastOp' \in {"tick", "resume"} /\ opRead'.ok
            /\ current_discharge_id >= 1)
            => /\ sessions[current_discharge_id].mode =
                      (IF test_mode THEN "Test" ELSE "Real")
               /\ InMode(opCmds', sessions[current_discharge_id].mode)
      ]_vars

Magnitude(x) == IF x < 0 THEN -x ELSE x

====
